---------------------------- MODULE Spec2Model ----------------------------
(***************************************************************************)
(* Model of machPoint/core:                                                *)
(*   - the fake-data generators, their date fields and the                 *)
(*     StreamingDataGenerator emitter (fake data generator module),        *)
(*   - the route handlers: relationship discovery POST                     *)
(*     (api/ai/discover-relationships), chat POST (api/ai/chat),           *)
(*     requirements GET, FDS start POST and FDS stop POST (api/fds),       *)
(*   - the NotesSection component (components/TasksSection.tsx).           *)
(* Each component has its own variables and actions; the variables of the  *)
(* other components stay unchanged.                                        *)
(***************************************************************************)
EXTENDS Integers, Sequences, FiniteSets, TLC

VARIABLES
    \* ---- generators (one call of a generate* function) ----
    gpc,        \* "idle" | "loop" | "done": position of the generator call
    gen,        \* which generator runs: "jama" | "jira" | "windchill" | "pulse"
    count,      \* the count argument
    i,          \* the loop variable
    itemsRef,   \* the local const items: the address of the array being filled
    resultRef,  \* the reference the call returned
    heap,       \* the arrays of the module and of its callers, by address
    now,        \* the wall clock (ms) read by new Date()
    \* ---- StreamingDataGenerator ----
    intervalId, \* this.intervalId: Null or the id of the timer
    counter,    \* this.counter
    timers,     \* the host's active interval timers created by this instance
    nextTimerId,\* the host's timer id allocator
    calls,      \* log of callback invocations: <<[cb, seq]>>, seq the id of the item passed
    lastItem,   \* the item passed to the latest callback invocation
    lastOp,     \* the operation that made the last step
    prevOp,     \* the operation before it
    threw,      \* whether the last operation ended by throwing
    lastStartCb,\* the callback given to the latest start()
    sinceStart, \* time elapsed since the latest start() (saturates at MaxInterval)
    \* ---- relationship-discovery POST handler ----
    rpc,        \* "idle" | "awaitFetch" | "done"
    req,        \* the request: [body, key]
    outbound,   \* number of requests sent to the OpenAI API
    reply,      \* the upstream outcome the handler received
    resp,       \* the handler's outcome: a response or an escaped exception
    \* ---- the date fields of one generated record ----
    dpc,        \* "idle" | "created" | "done": position in the record literal
    drec,       \* the record: [kind, dates], dates the randomDate calls made for it
    \* ---- chat POST handler ----
    cpc,        \* "idle" | "awaitFetch" | "done"
    creq,       \* the request: [body, key]
    csent,      \* the requests sent to the OpenAI API: <<[messages]>>
    creply,     \* the upstream outcome the handler received
    cresp,      \* the handler's outcome: a response or an escaped exception
    \* ---- requirements GET handler ----
    qpc,        \* "idle" | "health" | "data" | "done"
    qidx,       \* position of the for-of loop in fdsUrls (1-based), 0 outside the loop
    qlog,       \* the upstream requests issued: <<[url, kind, outcome]>>
    qresp,      \* the handler's outcome: a response or an escaped exception
    \* ---- FDS start / stop POST handlers and the child processes ----
    registry,   \* global.runningProcesses.get('fds'): NoProc or a process id
    procs,      \* the child processes spawned so far: <<[state, killed, signals]>>
    spc,        \* start POST, by invocation: "idle" | "waiting" | "done"
    sproc,      \* start POST, by invocation: its local fdsProcess
    sresp,      \* start POST, by invocation: its outcome
    tpc,        \* stop POST, by invocation: "idle" | "waiting" | "done"
    tproc,      \* stop POST, by invocation: its local fdsProcess
    tresp,      \* stop POST, by invocation: its outcome
    fdsCalls,   \* number of start and stop invocations so far
    \* ---- NotesSection component ----
    notes,        \* the notes state: <<[id, title, content, isSourced]>>
    selectedNote, \* the selectedNote state: NoNote or a note
    content,      \* the content state: the text of the editor
    title,        \* the title state
    isEditing     \* the isEditing state

genVars == <<gpc, gen, count, i, itemsRef, resultRef, heap, now>>
emVars == <<intervalId, counter, timers, nextTimerId, calls, lastItem, lastOp, prevOp, threw, lastStartCb, sinceStart>>
routeVars == <<rpc, req, outbound, reply, resp>>
dateVars == <<dpc, drec>>
chatVars == <<cpc, creq, csent, creply, cresp>>
reqVars == <<qpc, qidx, qlog, qresp>>
fdsVars == <<registry, procs, spc, sproc, sresp, tpc, tproc, tresp, fdsCalls>>
notesVars == <<notes, selectedNote, content, title, isEditing>>
vars == <<genVars, emVars, routeVars, dateVars, chatVars, reqVars, fdsVars, notesVars>>

\* what the actions of one component leave unchanged: the other components
notGenVars == <<emVars, routeVars, dateVars, chatVars, reqVars, fdsVars, notesVars>>
notEmVars == <<genVars, routeVars, dateVars, chatVars, reqVars, fdsVars, notesVars>>
notRouteVars == <<genVars, emVars, dateVars, chatVars, reqVars, fdsVars, notesVars>>
notDateVars == <<gpc, gen, count, i, itemsRef, resultRef, heap, emVars, routeVars, chatVars, reqVars, fdsVars, notesVars>>
notChatVars == <<genVars, emVars, routeVars, dateVars, reqVars, fdsVars, notesVars>>
notReqVars == <<genVars, emVars, routeVars, dateVars, chatVars, fdsVars, notesVars>>
notFdsVars == <<genVars, emVars, routeVars, dateVars, chatVars, reqVars, notesVars>>
notNotesVars == <<genVars, emVars, routeVars, dateVars, chatVars, reqVars, fdsVars>>

Null == "null"

\* the array a reference points to (no array before the first assignment)
Deref(r) == IF r = Null THEN <<>> ELSE heap[r]
\* the array being filled and the returned array
items == Deref(itemsRef)
result == Deref(resultRef)

---------------------------------------------------------------------------
(* Bounds of the model *)

\* largest count argument given to a generator
MaxCount == 2
\* largest advance of the wall clock (ms) between two reads of new Date()
MaxClockStep == 1
\* number of start() calls (timers the host hands out) in one behaviour
MaxStarts == 3
\* largest intervalMs (in clock units) given to start()
MaxInterval == 2
\* number of timer callbacks run in one behaviour
MaxTicks == 3
\* largest number of documents in the sources array of a request
MaxSources == 3
\* number of distinct well-formed source documents
MaxDocs == 2
\* largest count argument in the study of the requirement/test-case split
MaxSplitCount == 15
\* largest number of messages in the history of a chat request
MaxHistory == 12
\* number of start and stop invocations of the FDS handlers in one behaviour
MaxFdsCalls == 3
\* largest number of notes in the list of the NotesSection
MaxNotes == 3

---------------------------------------------------------------------------
(* Fake data generators *)

names == <<"Sarah Chen", "Mike Rodriguez", "Alex Kim", "Jordan Lee", "Taylor Smith", "Morgan Davis">>
statuses == <<"draft", "approved", "under_review", "verified", "validated">>
priorities == <<"critical", "high", "medium", "low">>
issueStatuses == <<"open", "in_progress", "testing", "review", "resolved", "closed">>
partStates == <<"in_work", "released", "production", "obsolete">>
pulseSources == <<"jama", "jira", "windchill", "outlook", "email">>
streamSources == <<"jama", "jira", "windchill", "outlook">>

\* randomItem(arr) returns arr[floor(random * arr.length)] with 0 <= random < 1:
\* the values it can return (0-based index k is k + 1 here);
\* faulty variant: Math.round, whose index arr.length reads past the end
randomItemRound(arr) == { IF k < Len(arr) THEN arr[k + 1] ELSE "undefined" : k \in 0 .. Len(arr) }
randomItem(arr) == { arr[k + 1] : k \in 0 .. (Len(arr) - 1) }

\* milliseconds in one day: setDate(getDate() - k) moves the date k days back
MsPerDay == 86400000
\* the pulse generator calls randomDate(7)
PulseDays == 7
\* the clock at the start of a generator call
StartMs == 10 * MsPerDay

\* Date.prototype.toISOString: the instant as calendar date part and time-of-day part
toISOString(ms) == [date |-> ms \div MsPerDay, time |-> ms % MsPerDay]
\* new Date(isoString).getTime()
getTime(iso) == iso.date * MsPerDay + iso.time
\* ISO strings compare lexicographically: date part first, then time of day
IsoGeq(a, b) == a.date > b.date \/ (a.date = b.date /\ a.time >= b.time)

\* the values floor(random * daysAgo) can take (faulty variant: Math.ceil)
DayOffsetsCeil(daysAgo) == 1 .. daysAgo
DayOffsets(daysAgo) == 0 .. (daysAgo - 1)
\* randomDate(daysAgo) read at clock t with floor(random * daysAgo) = d:
\* setDate(getDate() - d) moves the calendar date d days back in the host's
\* local time and keeps the time of day
randomDate(t, d) == [date |-> toISOString(t).date - d, time |-> toISOString(t).time]

\* the loop condition i <= count of every generator (faulty variant: i < count)
LoopCondOffByOne(idx, n) == idx < n
LoopCond(idx, n) == idx <= n

\* i <= count * 0.6 (exact for the integers of the model: 10 i <= 6 count);
\* faulty variant: i < count * 0.6
isRequirementStrict(idx, n) == 10 * idx < 6 * n
isRequirement(idx, n) == 10 * idx <= 6 * n

\* the literal head of the id template of each generator
idPrefix(kind) ==
    CASE kind = "jama"      -> "jama-"
      [] kind = "jira"      -> "jira-"
      [] kind = "windchill" -> "part-"
      [] kind = "pulse"     -> "pulse-"

\* the number of characters of ${i} for an integer i >= 0
RECURSIVE digits(_)
digits(n) == IF n < 10 THEN 1 ELSE 1 + digits(n \div 10)

\* the length of the id string `<prefix>${i}` of record i
idLength(kind, idx) == Len(idPrefix(kind)) + digits(idx)

\* faulty variant of JamaItem: the document key of the other kind
JamaItemOtherKey(idx, n, st, pr) ==
    [ id          |-> idx,
      item_type   |-> IF isRequirement(idx, n) THEN "requirement" ELSE "test_case",
      prefix      |-> IF isRequirement(idx, n) THEN "JAMA-SYS-" ELSE "JAMA-FTC-",
      document_key|-> IF isRequirement(idx, n) THEN "FTP-2024" ELSE "SRD-2024",
      status      |-> st,
      priority    |-> pr ]

JamaItem(idx, n, st, pr) ==
    [ id          |-> idx,
      item_type   |-> IF isRequirement(idx, n) THEN "requirement" ELSE "test_case",
      prefix      |-> IF isRequirement(idx, n) THEN "JAMA-SYS-" ELSE "JAMA-FTC-",
      document_key|-> IF isRequirement(idx, n) THEN "SRD-2024" ELSE "FTP-2024",
      status      |-> st,
      priority    |-> pr ]

JiraIssue(idx, st, pr) ==
    [ id |-> idx, prefix |-> "JIRA-AERO-", status |-> st, priority |-> pr ]

WindchillPart(idx, st) ==
    [ id |-> idx, number |-> 1000 + idx, state |-> st ]

\* the switch (source) of generateFakePulseItems: the artifact reference
PulseArtifactRef(source, idx) ==
    CASE source = "jama"      -> [id |-> idx, type |-> "requirement", source |-> "jama", hasStatus |-> TRUE]
      [] source = "jira"      -> [id |-> idx, type |-> "issue", source |-> "jira", hasStatus |-> TRUE]
      [] source = "windchill" -> [id |-> 1000 + idx, type |-> "part", source |-> "windchill", hasStatus |-> TRUE]
      [] source = "outlook"   -> [id |-> idx, type |-> "message", source |-> "outlook", hasStatus |-> FALSE]
      [] OTHER                -> [id |-> idx, type |-> "email", source |-> "email", hasStatus |-> FALSE]

PulseItem(idx, source, ts) ==
    [ id |-> idx, artifact_ref |-> PulseArtifactRef(source, idx), timestamp |-> ts ]

\* the comparator of the final sort (faulty variant: ascending)
compareAscending(a, b) == getTime(a.timestamp) - getTime(b.timestamp)
compare(a, b) == getTime(b.timestamp) - getTime(a.timestamp)

\* Array.prototype.sort with a comparator: a stable sort, here by insertion
\* (faulty variant of the insertion: an element that compares equal to one
\* already placed is dropped)
RECURSIVE InsertSortedDedupe(_, _)
InsertSortedDedupe(x, s) ==
    IF s = <<>> THEN <<x>>
    ELSE IF compare(Head(s), x) = 0 THEN s
    ELSE IF compare(Head(s), x) < 0 THEN <<Head(s)>> \o InsertSortedDedupe(x, Tail(s))
    ELSE <<x>> \o s

RECURSIVE InsertSorted(_, _)
InsertSorted(x, s) ==
    IF s = <<>> THEN <<x>>
    ELSE IF compare(Head(s), x) <= 0 THEN <<Head(s)>> \o InsertSorted(x, Tail(s))
    ELSE <<x>> \o s

RECURSIVE sort(_)
sort(s) ==
    IF s = <<>> THEN <<>>
    ELSE InsertSorted(s[Len(s)], sort(SubSeq(s, 1, Len(s) - 1)))

\* the addresses of the module-level vocabularies and of the arrays created by calls
VocabularyAddresses == {"names", "statuses", "priorities", "issueStatuses"}
ArrayAddresses == {"a1", "a2"}

\* a collection an earlier call generateFakePulseItems(2) returned to its caller
EarlierCollection ==
    sort(<< PulseItem(1, "jama", randomDate(StartMs, 1)), PulseItem(2, "email", randomDate(StartMs, 0)) >>)

\* const items = []: a new array object (faulty variant: one array shared by all calls)
newArrayShared(h) == "a1"
newArray(h) == CHOOSE a \in ArrayAddresses : a \notin DOMAIN h

\* the heap after the array at address a has been given the contents v
store(h, a, v) == [ x \in DOMAIN h \cup {a} |-> IF x = a THEN v ELSE h[x] ]

GenInit ==
    /\ gpc = "idle"
    /\ gen = Null
    /\ count = 0
    /\ i = 0
    /\ itemsRef = Null
    /\ resultRef = Null
    /\ heap = [ a \in VocabularyAddresses \cup {"a1"} |->
                  CASE a = "names" -> names
                    [] a = "statuses" -> statuses
                    [] a = "priorities" -> priorities
                    [] a = "issueStatuses" -> issueStatuses
                    [] a = "a1" -> EarlierCollection ]
    /\ now = StartMs

\* a call generateFakeX(n): const items = []; i = 1
callGenerator(kind, n) ==
    /\ gpc = "idle"
    /\ gpc' = "loop"
    /\ gen' = kind
    /\ count' = n
    /\ i' = 1
    /\ itemsRef' = newArray(heap)
    /\ heap' = store(heap, newArray(heap), <<>>)
    /\ UNCHANGED <<resultRef, now>>
    /\ UNCHANGED notGenVars

\* one iteration of the loop of generateFakeJamaItems
jamaIteration ==
    /\ gpc = "loop" /\ gen = "jama"
    /\ LoopCond(i, count)
    /\ \E st \in randomItem(heap["statuses"]), pr \in randomItem(heap["priorities"]) :
          heap' = store(heap, itemsRef, Append(items, JamaItem(i, count, st, pr)))
    /\ i' = i + 1
    /\ UNCHANGED <<gpc, gen, count, itemsRef, resultRef, now>>
    /\ UNCHANGED notGenVars

\* one iteration of the loop of generateFakeJiraIssues
jiraIteration ==
    /\ gpc = "loop" /\ gen = "jira"
    /\ LoopCond(i, count)
    /\ \E st \in randomItem(heap["issueStatuses"]), pr \in randomItem(heap["priorities"]) :
          heap' = store(heap, itemsRef, Append(items, JiraIssue(i, st, pr)))
    /\ i' = i + 1
    /\ UNCHANGED <<gpc, gen, count, itemsRef, resultRef, now>>
    /\ UNCHANGED notGenVars

\* one iteration of the loop of generateFakeWindchillParts
windchillIteration ==
    /\ gpc = "loop" /\ gen = "windchill"
    /\ LoopCond(i, count)
    /\ \E st \in randomItem(partStates) :
          heap' = store(heap, itemsRef, Append(items, WindchillPart(i, st)))
    /\ i' = i + 1
    /\ UNCHANGED <<gpc, gen, count, itemsRef, resultRef, now>>
    /\ UNCHANGED notGenVars

\* one iteration of the loop of generateFakePulseItems; randomDate(7) reads the clock
pulseIteration ==
    /\ gpc = "loop" /\ gen = "pulse"
    /\ LoopCond(i, count)
    /\ \E source \in randomItem(pulseSources), d \in DayOffsets(PulseDays), step \in 0 .. MaxClockStep :
          /\ now' = now + step
          /\ heap' = store(heap, itemsRef, Append(items, PulseItem(i, source, randomDate(now + step, d))))
    /\ i' = i + 1
    /\ UNCHANGED <<gpc, gen, count, itemsRef, resultRef>>
    /\ UNCHANGED notGenVars

\* the loop ends and the function returns its array (the pulse list after
\* items.sort(...), which sorts the array in place and returns it)
generatorReturn ==
    /\ gpc = "loop"
    /\ ~LoopCond(i, count)
    /\ heap' = IF gen = "pulse" THEN store(heap, itemsRef, sort(items)) ELSE heap
    /\ resultRef' = itemsRef
    /\ gpc' = "done"
    /\ UNCHANGED <<gen, count, i, itemsRef, now>>
    /\ UNCHANGED notGenVars

GenNext ==
    \/ \E kind \in {"jama", "jira", "windchill", "pulse"}, n \in 0 .. MaxCount : callGenerator(kind, n)
    \/ jamaIteration
    \/ jiraIteration
    \/ windchillIteration
    \/ pulseIteration
    \/ generatorReturn

\* the default count of generateFakeJamaItems
DefaultJamaCount == 50
\* the counts of the split study: the small ones and the default
SplitCounts == (0 .. MaxSplitCount) \cup {DefaultJamaCount}

\* the fields of a Jama item that i and count determine (no random draw)
kindFields(item) ==
    [ id |-> item.id, item_type |-> item.item_type, prefix |-> item.prefix,
      document_key |-> item.document_key ]

\* one iteration of the loop of generateFakeJamaItems, keeping of the pushed
\* item the fields that do not depend on the random draws
jamaKindIteration ==
    /\ gpc = "loop" /\ gen = "jama"
    /\ LoopCond(i, count)
    /\ \E st \in randomItem(heap["statuses"]), pr \in randomItem(heap["priorities"]) :
          heap' = store(heap, itemsRef, Append(items, kindFields(JamaItem(i, count, st, pr))))
    /\ i' = i + 1
    /\ UNCHANGED <<gpc, gen, count, itemsRef, resultRef, now>>
    /\ UNCHANGED notGenVars

SplitNext ==
    \/ \E n \in SplitCounts : callGenerator("jama", n)
    \/ jamaKindIteration
    \/ generatorReturn

---------------------------------------------------------------------------
(* The date fields of a generated record *)

\* the daysAgo argument of the first and of the second randomDate call of a record
CreatedBound(kind) ==
    CASE kind = "jama" -> 365 [] kind = "jira" -> 180 [] kind = "windchill" -> 730
ModifiedBound(kind) ==
    CASE kind = "jama" -> 30 [] kind = "jira" -> 7 [] kind = "windchill" -> 90

\* one call randomDate(daysAgo) made at clock t with floor(random * daysAgo) = d:
\* the argument, the instant new Date() read, the draw and the returned string
dateCall(daysAgo, t, d) ==
    [ daysAgo |-> daysAgo, at |-> toISOString(t), back |-> d, value |-> randomDate(t, d) ]

\* the record literal after its second date field (faulty variant: the
\* modified date is raised to the created date when it would be earlier)
withModifiedClamped(rec, call) ==
    [ rec EXCEPT !.dates = Append(@,
        IF IsoGeq(call.value, rec.dates[1].value) THEN call
        ELSE [call EXCEPT !.value = rec.dates[1].value]) ]
withModified(rec, call) == [ rec EXCEPT !.dates = Append(@, call) ]

DateInit ==
    /\ dpc = "idle"
    /\ drec = [ kind |-> Null, dates |-> <<>> ]

\* created_date: randomDate(365) / created: randomDate(180) / created_date: randomDate(730)
createdDate(kind) ==
    /\ dpc = "idle"
    /\ \E d \in DayOffsets(CreatedBound(kind)), step \in 0 .. MaxClockStep :
          /\ now' = now + step
          /\ drec' = [ kind |-> kind, dates |-> << dateCall(CreatedBound(kind), now + step, d) >> ]
    /\ dpc' = "created"
    /\ UNCHANGED notDateVars

\* modified_date: randomDate(30) / updated: randomDate(7) / modified_date: randomDate(90)
modifiedDate ==
    /\ dpc = "created"
    /\ \E d \in DayOffsets(ModifiedBound(drec.kind)), step \in 0 .. MaxClockStep :
          /\ now' = now + step
          /\ drec' = withModified(drec, dateCall(ModifiedBound(drec.kind), now + step, d))
    /\ dpc' = "done"
    /\ UNCHANGED notDateVars

\* timestamp: randomDate(7) of a pulse item
pulseTimestamp ==
    /\ dpc = "idle"
    /\ \E d \in DayOffsets(PulseDays), step \in 0 .. MaxClockStep :
          /\ now' = now + step
          /\ drec' = [ kind |-> "pulse", dates |-> << dateCall(PulseDays, now + step, d) >> ]
    /\ dpc' = "done"
    /\ UNCHANGED notDateVars

DateNext ==
    \/ \E kind \in {"jama", "jira", "windchill"} : createdDate(kind)
    \/ modifiedDate
    \/ pulseTimestamp

---------------------------------------------------------------------------
(* StreamingDataGenerator *)

\* intervalId = null: the falsy value, no timer handle is falsy
NullId == 0

\* the callbacks a caller may pass to start()
Callbacks == {"A", "B"}

\* clearInterval(id): the host forgets the timer with that id
clearInterval(tms, id) == { t \in tms : t.id # id }

\* stop() that forgets to clear the timer (faulty variant of stopTimers)
stopTimersNoClear(tms, iid) == tms

\* the effect of stop() on the timers: if (this.intervalId) clearInterval(this.intervalId)
stopTimers(tms, iid) == IF iid # NullId THEN clearInterval(tms, iid) ELSE tms

\* the switch with the default branch of the static generator (faulty
\* variant of StreamArtifactRef)
StreamArtifactRefEmail(source) ==
    CASE source = "jama"      -> [type |-> "requirement", source |-> "jama", hasStatus |-> TRUE]
      [] source = "jira"      -> [type |-> "issue", source |-> "jira", hasStatus |-> TRUE]
      [] source = "windchill" -> [type |-> "part", source |-> "windchill", hasStatus |-> TRUE]
      [] OTHER                -> [type |-> "email", source |-> "email", hasStatus |-> FALSE]
\* the switch (source) of generateStreamingItem: the artifact reference
StreamArtifactRef(source) ==
    CASE source = "jama"      -> [type |-> "requirement", source |-> "jama", hasStatus |-> TRUE]
      [] source = "jira"      -> [type |-> "issue", source |-> "jira", hasStatus |-> TRUE]
      [] source = "windchill" -> [type |-> "part", source |-> "windchill", hasStatus |-> TRUE]
      [] OTHER                -> [type |-> "message", source |-> "outlook", hasStatus |-> FALSE]

\* generateStreamingItem(id) with randomItem(sources) = source
generateStreamingItem(id, source) ==
    [ seq |-> id, artifact_ref |-> StreamArtifactRef(source) ]

EmInit ==
    /\ intervalId = NullId
    /\ counter = 0
    /\ timers = {}
    /\ nextTimerId = 1
    /\ calls = <<>>
    /\ lastItem = generateStreamingItem(0, "outlook")
    /\ lastOp = "new"
    /\ prevOp = "new"
    /\ threw = FALSE
    /\ lastStartCb = Null
    /\ sinceStart = 0

\* start(callback, intervalMs) without the leading this.stop() (faulty variant of start)
startWithoutStop(callback, intervalMs) ==
    /\ nextTimerId <= MaxStarts
    /\ timers' = timers \cup
                   {[id |-> nextTimerId, cb |-> callback, interval |-> intervalMs, elapsed |-> 0]}
    /\ intervalId' = nextTimerId
    /\ nextTimerId' = nextTimerId + 1
    /\ lastOp' = "start"
    /\ prevOp' = lastOp
    /\ threw' = FALSE
    /\ lastStartCb' = callback
    /\ sinceStart' = 0
    /\ UNCHANGED <<counter, calls, lastItem>>
    /\ UNCHANGED notEmVars

\* start(callback, intervalMs): this.stop(); this.intervalId = setInterval(..., intervalMs)
start(callback, intervalMs) ==
    /\ nextTimerId <= MaxStarts
    /\ timers' = stopTimers(timers, intervalId) \cup
                   {[id |-> nextTimerId, cb |-> callback, interval |-> intervalMs, elapsed |-> 0]}
    /\ intervalId' = nextTimerId
    /\ nextTimerId' = nextTimerId + 1
    /\ lastOp' = "start"
    /\ prevOp' = lastOp
    /\ threw' = FALSE
    /\ lastStartCb' = callback
    /\ sinceStart' = 0
    /\ UNCHANGED <<counter, calls, lastItem>>
    /\ UNCHANGED notEmVars

\* stop() without the guard, calling a method of the handle:
\* this.intervalId.close() throws when intervalId is null (faulty variant of stop)
stopUnguarded ==
    /\ timers' = stopTimers(timers, intervalId)
    /\ intervalId' = NullId
    /\ lastOp' = "stop"
    /\ prevOp' = lastOp
    /\ threw' = (intervalId = NullId)
    /\ UNCHANGED <<counter, nextTimerId, calls, lastItem, lastStartCb, sinceStart>>
    /\ UNCHANGED notEmVars

\* stop() that clears the timer but keeps this.intervalId (faulty variant of stop)
stopKeepId ==
    /\ timers' = stopTimers(timers, intervalId)
    /\ lastOp' = "stop"
    /\ prevOp' = lastOp
    /\ threw' = FALSE
    /\ UNCHANGED <<intervalId, counter, nextTimerId, calls, lastItem, lastStartCb, sinceStart>>
    /\ UNCHANGED notEmVars

\* stop() that also resets this.counter (faulty variant of stop)
stopAndReset ==
    /\ timers' = stopTimers(timers, intervalId)
    /\ intervalId' = NullId
    /\ counter' = 0
    /\ lastOp' = "stop"
    /\ prevOp' = lastOp
    /\ threw' = FALSE
    /\ UNCHANGED <<nextTimerId, calls, lastItem, lastStartCb, sinceStart>>
    /\ UNCHANGED notEmVars

\* stop(): if (this.intervalId) { clearInterval(this.intervalId); this.intervalId = null }
stop ==
    /\ timers' = stopTimers(timers, intervalId)
    /\ intervalId' = IF intervalId # NullId THEN NullId ELSE intervalId
    /\ lastOp' = "stop"
    /\ prevOp' = lastOp
    /\ threw' = FALSE
    /\ UNCHANGED <<counter, nextTimerId, calls, lastItem, lastStartCb, sinceStart>>
    /\ UNCHANGED notEmVars

\* the timer callback as a one-shot: the emitter forgets its timer (faulty variant of tick)
tickOneShot(t) ==
    /\ t \in timers
    /\ t.elapsed >= t.interval
    /\ counter < MaxTicks
    /\ counter' = counter + 1
    /\ \E source \in randomItem(streamSources) :
          lastItem' = generateStreamingItem(counter + 1, source)
    /\ calls' = Append(calls, [cb |-> t.cb, seq |-> lastItem'.seq])
    /\ timers' = timers \ {t}
    /\ intervalId' = NullId
    /\ lastOp' = "tick"
    /\ prevOp' = lastOp
    /\ threw' = FALSE
    /\ UNCHANGED <<nextTimerId, lastStartCb, sinceStart>>
    /\ UNCHANGED notEmVars

\* the timer callback that passes two events per tick (faulty variant of tick)
tickTwice(t) ==
    /\ t \in timers
    /\ t.elapsed >= t.interval
    /\ counter < MaxTicks
    /\ counter' = counter + 1
    /\ \E source \in randomItem(streamSources) :
          lastItem' = generateStreamingItem(counter + 1, source)
    /\ calls' = calls \o << [cb |-> t.cb, seq |-> lastItem'.seq], [cb |-> t.cb, seq |-> lastItem'.seq] >>
    /\ timers' = (timers \ {t}) \cup {[t EXCEPT !.elapsed = 0]}
    /\ lastOp' = "tick"
    /\ prevOp' = lastOp
    /\ threw' = FALSE
    /\ UNCHANGED <<intervalId, nextTimerId, lastStartCb, sinceStart>>
    /\ UNCHANGED notEmVars

\* the host runs the callback of an active timer whose interval has elapsed:
\* this.counter++; newItem = this.generateStreamingItem(this.counter); callback(newItem);
\* the interval timer is armed again
tick(t) ==
    /\ t \in timers
    /\ t.elapsed >= t.interval
    /\ counter < MaxTicks
    /\ counter' = counter + 1
    /\ \E source \in randomItem(streamSources) :
          lastItem' = generateStreamingItem(counter + 1, source)
    /\ calls' = Append(calls, [cb |-> t.cb, seq |-> lastItem'.seq])
    /\ timers' = (timers \ {t}) \cup {[t EXCEPT !.elapsed = 0]}
    /\ lastOp' = "tick"
    /\ prevOp' = lastOp
    /\ threw' = FALSE
    /\ UNCHANGED <<intervalId, nextTimerId, lastStartCb, sinceStart>>
    /\ UNCHANGED notEmVars

\* one unit of time passes (a timer may fire late, never early)
advance ==
    /\ timers' = { [t EXCEPT !.elapsed = IF t.elapsed < t.interval THEN t.elapsed + 1 ELSE t.elapsed] :
                   t \in timers }
    /\ sinceStart' = IF sinceStart < MaxInterval THEN sinceStart + 1 ELSE sinceStart
    /\ lastOp' = "advance"
    /\ prevOp' = lastOp
    /\ threw' = FALSE
    /\ UNCHANGED <<intervalId, counter, nextTimerId, calls, lastItem, lastStartCb>>
    /\ UNCHANGED notEmVars

EmNext ==
    \/ \E cb \in Callbacks, ms \in 1 .. MaxInterval : start(cb, ms)
    \/ stop
    \/ \E t \in timers : tick(t)
    \/ advance

---------------------------------------------------------------------------
(* Relationship discovery: POST of api/ai/discover-relationships/route.ts *)

\* A source document of the request: ok = it has a string type and a metadata
\* object (source.type.toUpperCase() and source.metadata.system do not throw).
DocSet == [id : 1 .. MaxDocs, ok : BOOLEAN]
\* sources[k] for an index outside the array
Undefined == [id |-> 0, ok |-> FALSE]

SourceArrays == UNION { [1 .. n -> DocSet] : n \in 0 .. MaxSources }

\* what the sources field of an object body can be, besides an array
NonArraySources == {"absent", "null", "emptyString", "string", "zero", "number", "false", "true", "object"}

\* The request body as request.json() sees it.
Bodies ==
    { [k |-> b, sk |-> "absent", items |-> <<>>] : b \in {"unparseable", "null", "scalar", "array"} }
    \cup { [k |-> "object", sk |-> x, items |-> <<>>] : x \in NonArraySources }
    \cup { [k |-> "object", sk |-> "array", items |-> a] : a \in SourceArrays }

\* !sources
Falsy(sk) == sk \in {"absent", "null", "emptyString", "zero", "false"}

\* !sources || !Array.isArray(sources) || sources.length < 2
sourcesRejected(body) ==
    Falsy(body.sk) \/ body.sk # "array" \/ Len(body.items) < 2

NoResp == [k |-> "none", status |-> 0, error |-> "", details |-> "",
           hasRelationships |-> FALSE, relationships |-> <<>>]

\* NextResponse.json({error, details?}, {status})
ErrorResponse(st, err, det) ==
    [k |-> "response", status |-> st, error |-> err, details |-> det,
     hasRelationships |-> FALSE, relationships |-> <<>>]

\* an exception thrown inside the outer try
Throw == [k |-> "throw", status |-> 0, error |-> "", details |-> "",
          hasRelationships |-> FALSE, relationships |-> <<>>]

\* the handler goes on to the outbound fetch
GoFetch == [k |-> "fetch", status |-> 0, error |-> "", details |-> "",
            hasRelationships |-> FALSE, relationships |-> <<>>]

\* the outer catch: every exception becomes a 500 response
outerCatch(r) ==
    IF r.k = "throw" THEN ErrorResponse(500, "Failed to discover relationships", "") ELSE r

\* lines 17-39: from request.json() to the prompt, up to the fetch call
beforeFetch(body, key) ==
    IF body.k = "unparseable" THEN Throw            \* request.json() rejects
    ELSE IF body.k = "null" THEN Throw              \* const { sources } = null throws
    ELSE IF sourcesRejected(body)
         THEN ErrorResponse(400, "At least 2 data sources are required", "")
    ELSE IF ~key
         THEN ErrorResponse(500, "OpenAI API key not configured", "")
    ELSE IF \E n \in 1 .. Len(body.items) : ~body.items[n].ok
         THEN Throw                                  \* sources.map(...) throws
    ELSE GoFetch

\* The texts the model may reply with.
ModelTexts ==
    { "I found these relationships: ...", "null", "42", "{}",
      "{\"relationships\":[{\"sourceIndices\":[0,1]}]}",
      "{\"relationships\":\"none\"}",
      "[]", "[{\"sourceIndices\":[0,1]}]", "[{\"sourceIndices\":[1,0]},{}]",
      "[{\"sourceIndices\":[0,5]}]", "[{\"sourceIndices\":[1]}]", "[null]", "[7]" }

\* a relationship object with sourceIndices si; an element that is no object
Rel(si) == [k |-> "object", hasSi |-> TRUE, si |-> si]
RelNoIndices == [k |-> "object", hasSi |-> FALSE, si |-> <<>>]
ElemNull == [k |-> "null", hasSi |-> FALSE, si |-> <<>>]
ElemScalar == [k |-> "scalar", hasSi |-> FALSE, si |-> <<>>]

Json(kind, relKind, elems) == [k |-> kind, rel |-> relKind, items |-> elems]

\* JSON.parse(text) on the texts above
JSONparse(text) ==
    CASE text = "null" -> Json("null", "absent", <<>>)
      [] text = "42" -> Json("scalar", "absent", <<>>)
      [] text = "{}" -> Json("object", "absent", <<>>)
      [] text = "{\"relationships\":[{\"sourceIndices\":[0,1]}]}"
                     -> Json("object", "array", << Rel(<<0, 1>>) >>)
      [] text = "{\"relationships\":\"none\"}" -> Json("object", "other", <<>>)
      [] text = "[]" -> Json("array", "absent", <<>>)
      [] text = "[{\"sourceIndices\":[0,1]}]" -> Json("array", "absent", << Rel(<<0, 1>>) >>)
      [] text = "[{\"sourceIndices\":[1,0]},{}]"
                     -> Json("array", "absent", << Rel(<<1, 0>>), RelNoIndices >>)
      [] text = "[{\"sourceIndices\":[0,5]}]" -> Json("array", "absent", << Rel(<<0, 5>>) >>)
      [] text = "[{\"sourceIndices\":[1]}]" -> Json("array", "absent", << Rel(<<1>>) >>)
      [] text = "[null]" -> Json("array", "absent", << ElemNull >>)
      [] text = "[7]" -> Json("array", "absent", << ElemScalar >>)
      [] OTHER -> Json("SyntaxError", "absent", <<>>)

\* arr[k] for a 0-based index k: undefined outside the array
At(arr, k) == IF k >= 0 /\ k < Len(arr) THEN arr[k + 1] ELSE Undefined
\* indices[k] of a sourceIndices array: undefined (-1 here) outside the array
IndexAt(si, k) == IF k < Len(si) THEN si[k + 1] ELSE -1

\* one element of enrichedRelationships (lines 129-143)
enrich(rel, sources) ==
    LET sourceIndices == IF rel.hasSi THEN rel.si ELSE <<0, 1>>
    IN [ sourceA |-> At(sources, IndexAt(sourceIndices, 0)),
         sourceB |-> At(sources, IndexAt(sourceIndices, 1)) ]

\* the inner catch without the raw text (faulty variant of parseFailure)
parseFailureNoDetails(aiResponse) ==
    ErrorResponse(500, "Invalid AI response format", "")

\* the inner catch (lines 120-126): the raw text goes into details
parseFailure(aiResponse) ==
    ErrorResponse(500, "Invalid AI response format", aiResponse)

\* lines 114-148: parse the model's text and build the response
parseAndEnrich(aiResponse, sources) ==
    LET parsed == JSONparse(aiResponse)
    IN IF parsed.k = "SyntaxError" THEN parseFailure(aiResponse)
       ELSE IF parsed.k = "null" THEN parseFailure(aiResponse)   \* parsed.relationships throws in the inner try
       ELSE IF parsed.k # "array" /\ parsed.rel = "other" THEN Throw  \* relationships.map is not a function
       ELSE LET relationships == IF parsed.k = "array" \/ parsed.rel = "array"
                                 THEN parsed.items ELSE <<>>
            IN IF \E n \in 1 .. Len(relationships) : relationships[n].k = "null"
               THEN Throw                            \* rel.sourceIndices of null throws
               ELSE [k |-> "response", status |-> 200, error |-> "", details |-> "",
                     hasRelationships |-> TRUE,
                     relationships |-> [n \in 1 .. Len(relationships) |->
                                            enrich(relationships[n], sources)]]

\* The outcome of the outbound request.
Replies ==
    { [k |-> "reject", text |-> ""],                  \* fetch rejects
      [k |-> "notok", text |-> "rate limit exceeded"],\* !openaiResponse.ok
      [k |-> "badjson", text |-> ""],                 \* openaiResponse.json() rejects
      [k |-> "nochoices", text |-> ""],               \* openaiData.choices is undefined
      [k |-> "emptychoices", text |-> ""],            \* choices = [] or no message
      [k |-> "content", text |-> ""] }                \* content is the empty string
    \cup { [k |-> "content", text |-> t] : t \in ModelTexts }

\* lines 95-148: from the upstream outcome to the response
afterFetch(r, sources) ==
    IF r.k = "reject" THEN Throw
    ELSE IF r.k = "notok" THEN ErrorResponse(500, "Failed to get AI analysis", r.text)
    ELSE IF r.k = "badjson" THEN Throw
    ELSE IF r.k = "nochoices" THEN Throw
    ELSE IF r.k = "emptychoices" \/ r.text = "" THEN ErrorResponse(500, "No response from AI", "")
    ELSE parseAndEnrich(r.text, sources)

NoReply == [k |-> "none", text |-> ""]

RouteInit ==
    /\ rpc = "idle"
    /\ req = [body |-> [k |-> "unparseable", sk |-> "absent", items |-> <<>>], key |-> FALSE]
    /\ outbound = 0
    /\ reply = NoReply
    /\ resp = NoResp

\* POST(request) up to its first outbound call or its response
POSTreceive(body, key) ==
    /\ rpc = "idle"
    /\ req' = [body |-> body, key |-> key]
    /\ LET r == outerCatch(beforeFetch(body, key))
       IN IF r.k = "fetch"
          THEN /\ rpc' = "awaitFetch"
               /\ outbound' = outbound + 1
               /\ resp' = resp
          ELSE /\ rpc' = "done"
               /\ outbound' = outbound
               /\ resp' = r
    /\ UNCHANGED reply
    /\ UNCHANGED notRouteVars

\* the awaited fetch settles and POST runs to its response
POSTresume(r) ==
    /\ rpc = "awaitFetch"
    /\ reply' = r
    /\ resp' = outerCatch(afterFetch(r, req.body.items))
    /\ rpc' = "done"
    /\ UNCHANGED <<req, outbound>>
    /\ UNCHANGED notRouteVars

RouteNext ==
    \/ \E body \in Bodies, key \in BOOLEAN : POSTreceive(body, key)
    \/ \E r \in Replies : POSTresume(r)

---------------------------------------------------------------------------
(* Chat: POST of api/ai/chat/route.ts *)

\* body.history as an array of hlen messages of alternating roles, the
\* content of each known by its position
History(hlen) == [ n \in 1 .. hlen |->
                     [role |-> IF n % 2 = 1 THEN "user" ELSE "assistant", content |-> n] ]

\* The request body as request.json() sees it: not JSON, null, an object
\* without a history array, an object with one.
ChatBodies ==
    { [k |-> b, hasHistory |-> FALSE, history |-> <<>>] : b \in {"unparseable", "null", "object"} }
    \cup { [k |-> "object", hasHistory |-> TRUE, history |-> History(n)] : n \in 0 .. MaxHistory }

\* arr.slice(0, 10): the first 10 elements (faulty variant of sliceLast10)
sliceFirst10(arr) == SubSeq(arr, 1, IF Len(arr) > 10 THEN 10 ELSE Len(arr))
\* arr.slice(-10): the last 10 elements
sliceLast10(arr) == SubSeq(arr, IF Len(arr) > 10 THEN Len(arr) - 9 ELSE 1, Len(arr))

\* the messages of the completion request: system, recent history, user
\* (content 0 is the system prompt, content -1 is body.message)
messages(body) ==
    << [role |-> "system", content |-> 0] >>
    \o [ j \in 1 .. Len(sliceLast10(body.history)) |->
            [role |-> sliceLast10(body.history)[j].role,
             content |-> sliceLast10(body.history)[j].content] ]
    \o << [role |-> "user", content |-> -1] >>

\* where the handler stands without a response: "none" before it ends,
\* "throw" an exception inside the try, "fetch" going on to the fetch call
ChatOutcome(kind) == [k |-> kind, status |-> 0, error |-> "", message |-> ""]
\* NextResponse.json({error}, {status})
ChatError(st, err) == [k |-> "response", status |-> st, error |-> err, message |-> ""]
\* NextResponse.json({message, timestamp, context_used, suggestions})
ChatOk(msg) == [k |-> "response", status |-> 200, error |-> "", message |-> msg]

\* a handler without the catch: the exception leaves it (faulty variant of chatCatch)
chatCatchRethrow(r) == r
\* the catch of the handler: every exception becomes a 500 response
chatCatch(r) == IF r.k = "throw" THEN ChatError(500, "Internal server error") ELSE r

\* lines 25-107: from request.json() to the fetch call
chatBeforeFetch(body, key) ==
    IF body.k = "unparseable" THEN ChatOutcome("throw")          \* request.json() rejects
    ELSE IF ~key THEN ChatError(500, "OpenAI API key not configured")
    ELSE IF body.k = "null" THEN ChatOutcome("throw")            \* body.context_type of null throws
    ELSE IF ~body.hasHistory THEN ChatOutcome("throw")           \* body.history.slice is not a function
    ELSE ChatOutcome("fetch")

\* The outcome of the completion request.
ChatReplies ==
    { [k |-> "reject", text |-> ""],                  \* fetch rejects
      [k |-> "notok", text |-> "rate limit exceeded"],\* !openaiResponse.ok
      [k |-> "notokNoText", text |-> ""],             \* !ok and openaiResponse.text() rejects
      [k |-> "badjson", text |-> ""],                 \* openaiResponse.json() rejects
      [k |-> "nochoices", text |-> ""],               \* openaiData.choices is undefined
      [k |-> "emptychoices", text |-> ""],            \* choices = [] or no message
      [k |-> "content", text |-> ""],                 \* content is the empty string
      [k |-> "content", text |-> "Here is the analysis."] }

\* lines 124-222: from the upstream outcome to the response
chatAfterFetch(r) ==
    IF r.k \in {"reject", "notokNoText", "badjson", "nochoices"} THEN ChatOutcome("throw")
    ELSE IF r.k = "notok" THEN ChatError(500, "Failed to get AI response")
    ELSE IF r.k = "emptychoices" \/ r.text = "" THEN ChatOk("Sorry, I could not generate a response.")
    ELSE ChatOk(r.text)

ChatInit ==
    /\ cpc = "idle"
    /\ creq = [body |-> [k |-> "unparseable", hasHistory |-> FALSE, history |-> <<>>], key |-> FALSE]
    /\ csent = <<>>
    /\ creply = NoReply
    /\ cresp = ChatOutcome("none")

\* POST(request) up to its outbound call or its response
chatPOSTreceive(body, key) ==
    /\ cpc = "idle"
    /\ creq' = [body |-> body, key |-> key]
    /\ LET r == chatCatch(chatBeforeFetch(body, key))
       IN IF r.k = "fetch"
          THEN /\ cpc' = "awaitFetch"
               /\ csent' = Append(csent, [messages |-> messages(body)])
               /\ cresp' = cresp
          ELSE /\ cpc' = "done"
               /\ csent' = csent
               /\ cresp' = r
    /\ UNCHANGED creply
    /\ UNCHANGED notChatVars

\* the awaited fetch settles and POST runs to its response
chatPOSTresume(r) ==
    /\ cpc = "awaitFetch"
    /\ creply' = r
    /\ cresp' = chatCatch(chatAfterFetch(r))
    /\ cpc' = "done"
    /\ UNCHANGED <<creq, csent>>
    /\ UNCHANGED notChatVars

---------------------------------------------------------------------------
(* Requirements: GET of the requirements route *)

\* a list with the first base URL twice (faulty variant of fdsUrls)
fdsUrlsRepeated == << "http://127.0.0.1:8001", "http://127.0.0.1:8001" >>
\* the base URLs probed, in order
fdsUrls == << "http://127.0.0.1:8001", "http://localhost:8001" >>

\* how a health check can end: fetch rejects (network error or the 5 s
\* timeout), a non-2xx status, a body that is not JSON, success
HealthOutcomes == {"reject", "notok", "badjson", "ok"}
\* how the data request can end: fetch rejects, a non-2xx status, a body that
\* is not JSON, the JSON value null, an object without requirements, a list of
\* requirement objects, a requirements value that cannot be filtered or mapped
DataOutcomes == {"reject", "notok", "badjson", "null", "object", "list", "badlist"}

\* where the handler stands without a response: "none" before it ends,
\* "throw" an exception inside the outer try
ReqOutcome(kind) == [k |-> kind, status |-> 0, error |-> "", success |-> FALSE,
                     requirements |-> <<>>, total |-> 0]
\* NextResponse.json({error, message, requirements: [], total: 0}, {status})
ReqError(st, err) == [k |-> "response", status |-> st, error |-> err, success |-> FALSE,
                      requirements |-> <<>>, total |-> 0]
\* NextResponse.json({success: true, requirements, total, pagination}) for
\* the requirements reqs left by the filter, all within the page
ReqOk(reqs) == [k |-> "response", status |-> 200, error |-> "", success |-> TRUE,
                requirements |-> reqs, total |-> Len(reqs)]

\* the catch of the handler: every exception becomes a 500 response
reqCatch(r) == IF r.k = "throw" THEN ReqError(500, "Failed to fetch requirements") ELSE r

\* a health check that counts as passed although its body is not JSON
\* (faulty variant of healthy)
healthyOnStatus(outcome) == outcome \in {"ok", "badjson"}
\* lines 25-31: the health check passes when the status is 2xx and the body
\* parses as JSON; otherwise the catch sets healthCheck to null
healthy(outcome) == outcome = "ok"

\* an upstream request as issued, and the log after its outcome is known
Request(url, kind) == [url |-> url, kind |-> kind, outcome |-> "pending"]
settle(log, outcome) == [ log EXCEPT ![Len(log)].outcome = outcome ]

\* lines 65-116: from the outcome of the data request to the response
afterData(outcome) ==
    IF outcome \in {"reject", "notok", "badjson", "null", "badlist"} THEN ReqOutcome("throw")
    ELSE IF outcome = "object" THEN ReqOk(<<>>)
    ELSE ReqOk(<< "requirement" >>)

ReqInit ==
    /\ qpc = "idle"
    /\ qidx = 0
    /\ qlog = <<>>
    /\ qresp = ReqOutcome("none")

\* GET(request) up to the first health check of the loop
GETreceive ==
    /\ qpc = "idle"
    /\ qpc' = "health"
    /\ qidx' = 1
    /\ qlog' = Append(qlog, Request(fdsUrls[1], "health"))
    /\ UNCHANGED qresp
    /\ UNCHANGED notReqVars

\* the awaited health check ends: on success the loop is left and the data
\* request is issued to the base URL that answered; on failure the loop goes
\* on to the next base URL, and after the last one the handler answers 503
GEThealth(outcome) ==
    /\ qpc = "health"
    /\ IF healthy(outcome)
       THEN /\ qpc' = "data"
            /\ qidx' = 0
            /\ qlog' = Append(settle(qlog, outcome), Request(fdsUrls[qidx], "data"))
            /\ qresp' = qresp
       ELSE IF qidx < Len(fdsUrls)
       THEN /\ qpc' = "health"
            /\ qidx' = qidx + 1
            /\ qlog' = Append(settle(qlog, outcome), Request(fdsUrls[qidx + 1], "health"))
            /\ qresp' = qresp
       ELSE /\ qpc' = "done"
            /\ qidx' = 0
            /\ qlog' = settle(qlog, outcome)
            /\ qresp' = reqCatch(ReqError(503, "Data engine is not running"))
    /\ UNCHANGED notReqVars

\* the awaited data request ends and GET runs to its response
GETdata(outcome) ==
    /\ qpc = "data"
    /\ qlog' = settle(qlog, outcome)
    /\ qresp' = reqCatch(afterData(outcome))
    /\ qpc' = "done"
    /\ UNCHANGED qidx
    /\ UNCHANGED notReqVars

---------------------------------------------------------------------------
(* FDS process control: POST of api/fds/start and POST of api/fds/stop *)

\* runningProcesses.has('fds') is false
NoProc == 0

\* how spawn('python', ['start_fds.py'], ...) can end: the child runs; the
\* child cannot be started and an 'error' event follows on the next tick;
\* spawn throws
SpawnOutcomes == {"spawned", "failed", "throws"}

\* a child process as the ChildProcess object shows it
NewProcess(st) == [state |-> st, killed |-> FALSE, signals |-> <<>>]

\* fdsProcess.kill(signal): the signal is delivered to a running child and
\* killed becomes true; for a child that has gone nothing happens
kill(ps, p, signal) ==
    IF ps[p].state = "running"
    THEN [ ps EXCEPT ![p].killed = TRUE, ![p].signals = Append(@, signal) ]
    ELSE ps

\* where a handler stands without a response: "none" before it ends,
\* "throw" an exception inside the try
FdsOutcome(kind) == [k |-> kind, status |-> 0, error |-> "", message |-> ""]
\* NextResponse.json({error, ...}, {status})
FdsError(st, err) == [k |-> "response", status |-> st, error |-> err, message |-> ""]
\* NextResponse.json({success: true, message, ...})
FdsOk(msg) == [k |-> "response", status |-> 200, error |-> "", message |-> msg]

\* the catch of the start handler and of the stop handler
startCatch(r) == IF r.k = "throw" THEN FdsError(500, "Failed to start Fake Data Service") ELSE r
stopCatch(r) == IF r.k = "throw" THEN FdsError(500, "Failed to stop Fake Data Service") ELSE r

\* runningProcesses.has('fds') (faulty variant: the check never finds an entry)
hasNever(reg) == FALSE
has(reg) == reg # NoProc

\* the invocations of the start and stop handlers, in the order they are
\* received; handlers interleave at their awaits
FdsRequests == 1 .. MaxFdsCalls

FdsInit ==
    /\ registry = NoProc
    /\ procs = <<>>
    /\ spc = [n \in FdsRequests |-> "idle"]
    /\ sproc = [n \in FdsRequests |-> NoProc]
    /\ sresp = [n \in FdsRequests |-> FdsOutcome("none")]
    /\ tpc = [n \in FdsRequests |-> "idle"]
    /\ tproc = [n \in FdsRequests |-> NoProc]
    /\ tresp = [n \in FdsRequests |-> FdsOutcome("none")]
    /\ fdsCalls = 0

\* GET of the start and stop routes: {fdsRunning, processCount}
statusGET ==
    [ fdsRunning |-> has(registry), processCount |-> IF registry # NoProc THEN 1 ELSE 0 ]

\* start POST up to its response or to the 1000 ms wait: the has('fds') check,
\* spawn, set('fds', fdsProcess), the 'error' and 'exit' listeners
STARTreceive(outcome) ==
    /\ fdsCalls < MaxFdsCalls
    /\ fdsCalls' = fdsCalls + 1
    /\ LET n == fdsCalls + 1 IN
       IF has(registry)
       THEN /\ sresp' = [sresp EXCEPT ![n] = startCatch(FdsError(409, "Fake Data Service is already running"))]
            /\ spc' = [spc EXCEPT ![n] = "done"]
            /\ UNCHANGED <<registry, procs, sproc>>
       ELSE IF outcome = "throws"
       THEN /\ sresp' = [sresp EXCEPT ![n] = startCatch(FdsOutcome("throw"))]
            /\ spc' = [spc EXCEPT ![n] = "done"]
            /\ UNCHANGED <<registry, procs, sproc>>
       ELSE /\ procs' = Append(procs, NewProcess(IF outcome = "spawned" THEN "running" ELSE "failed"))
            /\ sproc' = [sproc EXCEPT ![n] = Len(procs) + 1]
            \* the 'error' listener of a failed spawn runs before anything else: delete('fds')
            /\ registry' = IF outcome = "spawned" THEN Len(procs) + 1 ELSE NoProc
            /\ spc' = [spc EXCEPT ![n] = "waiting"]
            /\ UNCHANGED sresp
    /\ UNCHANGED <<tpc, tproc, tresp>>
    /\ UNCHANGED notFdsVars

\* start POST after the wait: the fdsProcess.killed check and the response
STARTresume(n) ==
    /\ spc[n] = "waiting"
    /\ sresp' = [sresp EXCEPT ![n] = startCatch(IF procs[sproc[n]].killed
                                                THEN FdsError(500, "Failed to start Fake Data Service")
                                                ELSE FdsOk("Fake Data Service started successfully"))]
    /\ spc' = [spc EXCEPT ![n] = "done"]
    /\ UNCHANGED <<registry, procs, sproc, tpc, tproc, tresp, fdsCalls>>
    /\ UNCHANGED notFdsVars

\* stop POST up to its response or to the 2000 ms wait
STOPreceive ==
    /\ fdsCalls < MaxFdsCalls
    /\ fdsCalls' = fdsCalls + 1
    /\ LET n == fdsCalls + 1 IN
       IF ~has(registry)
       THEN /\ tresp' = [tresp EXCEPT ![n] = stopCatch(FdsError(404, "Fake Data Service is not running"))]
            /\ tpc' = [tpc EXCEPT ![n] = "done"]
            /\ UNCHANGED <<registry, procs, tproc>>
       ELSE IF procs[registry].killed
       THEN /\ tproc' = [tproc EXCEPT ![n] = registry]
            /\ registry' = NoProc
            /\ tresp' = [tresp EXCEPT ![n] = stopCatch(FdsOk("Fake Data Service stopped successfully"))]
            /\ tpc' = [tpc EXCEPT ![n] = "done"]
            /\ UNCHANGED procs
       ELSE /\ tproc' = [tproc EXCEPT ![n] = registry]
            /\ procs' = kill(procs, registry, "SIGTERM")
            /\ tpc' = [tpc EXCEPT ![n] = "waiting"]
            /\ UNCHANGED <<registry, tresp>>
    /\ UNCHANGED <<spc, sproc, sresp>>
    /\ UNCHANGED notFdsVars

\* stop POST after the wait without delete('fds') (faulty variant of STOPresume)
STOPresumeNoDelete(n) ==
    /\ tpc[n] = "waiting"
    /\ procs' = IF ~procs[tproc[n]].killed THEN kill(procs, tproc[n], "SIGKILL") ELSE procs
    /\ tresp' = [tresp EXCEPT ![n] = stopCatch(FdsOk("Fake Data Service stopped successfully"))]
    /\ tpc' = [tpc EXCEPT ![n] = "done"]
    /\ UNCHANGED <<registry, spc, sproc, sresp, tproc, fdsCalls>>
    /\ UNCHANGED notFdsVars

\* stop POST after the wait: SIGKILL if killed is still false, delete('fds'), the response
STOPresume(n) ==
    /\ tpc[n] = "waiting"
    /\ procs' = IF ~procs[tproc[n]].killed THEN kill(procs, tproc[n], "SIGKILL") ELSE procs
    /\ registry' = NoProc
    /\ tresp' = [tresp EXCEPT ![n] = stopCatch(FdsOk("Fake Data Service stopped successfully"))]
    /\ tpc' = [tpc EXCEPT ![n] = "done"]
    /\ UNCHANGED <<spc, sproc, sresp, tproc, fdsCalls>>
    /\ UNCHANGED notFdsVars

\* a running child exits (by itself or after a signal); its 'exit' listener
\* runs runningProcesses.delete('fds')
processExit(p) ==
    /\ p \in 1 .. Len(procs)
    /\ procs[p].state = "running"
    /\ procs' = [ procs EXCEPT ![p].state = "exited" ]
    /\ registry' = NoProc
    /\ UNCHANGED <<spc, sproc, sresp, tpc, tproc, tresp, fdsCalls>>
    /\ UNCHANGED notFdsVars

---------------------------------------------------------------------------
(* NotesSection: the notes list and the note editor *)

\* selectedNote is null
NoNote == [id |-> 0, title |-> "", content |-> "", isSourced |-> FALSE]

\* the initial notes: a note of the user and a note imported from jira
mockNotes ==
    << [id |-> 1, title |-> "System Architecture Overview", content |-> "# System Architecture", isSourced |-> FALSE],
       [id |-> 2, title |-> "API Requirements Document", content |-> "# API Requirements", isSourced |-> TRUE] >>

\* e.target.value: what the user can make of an input
EditTexts == {"", "edited"}
\* Date.now() at a creation (it can repeat within one millisecond)
CreatedIds == {1001, 1002}

\* prev.map(note => note.id === updated.id ? updated : note)
replaceById(ns, updated) == [ k \in 1 .. Len(ns) |-> IF ns[k].id = updated.id THEN updated ELSE ns[k] ]
\* notes.filter(n => n.id !== id)
RECURSIVE removeById(_, _)
removeById(ns, id) ==
    IF ns = <<>> THEN <<>>
    ELSE IF Head(ns).id # id THEN <<Head(ns)>> \o removeById(Tail(ns), id)
    ELSE removeById(Tail(ns), id)

NotesInit ==
    /\ notes = mockNotes
    /\ selectedNote = mockNotes[1]
    /\ content = mockNotes[1].content
    /\ title = mockNotes[1].title
    /\ isEditing = FALSE

\* a click on note k of the list: setSelectedNote(note), then the effect
\* copies its content and title into the editor state
selectNote(k) ==
    /\ k \in 1 .. Len(notes)
    /\ selectedNote' = notes[k]
    /\ IF notes[k] # selectedNote
       THEN content' = notes[k].content /\ title' = notes[k].title
       ELSE UNCHANGED <<content, title>>
    /\ UNCHANGED <<notes, isEditing>>
    /\ UNCHANGED notNotesVars

\* onChange of the title input of the note header (lines 579-587), shown
\* for every selected note; then the effect of the new selectedNote
titleChange(value) ==
    /\ selectedNote # NoNote
    /\ LET updatedNote == [selectedNote EXCEPT !.title = value]
       IN /\ selectedNote' = updatedNote
          /\ notes' = replaceById(notes, updatedNote)
          /\ IF updatedNote # selectedNote
             THEN content' = updatedNote.content /\ title' = updatedNote.title
             ELSE UNCHANGED <<content, title>>
    /\ UNCHANGED isEditing
    /\ UNCHANGED notNotesVars

\* onChange of the textarea (lines 626-633), shown when the selected note is
\* not sourced
contentChange(value) ==
    /\ selectedNote # NoNote
    /\ ~selectedNote.isSourced
    /\ content' = value
    /\ UNCHANGED <<notes, selectedNote, title, isEditing>>
    /\ UNCHANGED notNotesVars

\* handleSave (lines 421-441)
handleSave ==
    /\ IF selectedNote = NoNote \/ selectedNote.isSourced
       THEN UNCHANGED <<notes, selectedNote, content, title, isEditing>>
       ELSE LET updatedNote == [selectedNote EXCEPT !.title = title, !.content = content]
            IN /\ notes' = replaceById(notes, updatedNote)
               /\ selectedNote' = updatedNote
               /\ isEditing' = FALSE
               /\ UNCHANGED <<content, title>>
    /\ UNCHANGED notNotesVars

\* handleCreateNote (lines 443-459)
handleCreateNote(id) ==
    /\ Len(notes) < MaxNotes
    /\ LET newNote == [id |-> id, title |-> "Untitled Note", content |-> "", isSourced |-> FALSE]
       IN /\ notes' = <<newNote>> \o notes
          /\ selectedNote' = newNote
    /\ title' = "Untitled Note"
    /\ content' = ""
    /\ isEditing' = TRUE
    /\ UNCHANGED notNotesVars

\* onClick of the delete button of the note header (lines 599-609)
deleteNote ==
    /\ selectedNote # NoNote
    /\ notes' = removeById(notes, selectedNote.id)
    /\ selectedNote' = NoNote
    /\ UNCHANGED <<content, title, isEditing>>
    /\ UNCHANGED notNotesVars

NotesNext ==
    \/ \E k \in 1 .. MaxNotes : selectNote(k)
    \/ \E value \in EditTexts : titleChange(value)
    \/ \E value \in EditTexts : contentChange(value)
    \/ handleSave
    \/ \E id \in CreatedIds : handleCreateNote(id)
    \/ deleteNote

---------------------------------------------------------------------------
(* Specifications *)

Init == GenInit /\ EmInit /\ RouteInit /\ DateInit /\ ChatInit /\ ReqInit /\ FdsInit /\ NotesInit

\* one call of a generator
Next == GenNext
Spec == Init /\ [][Next]_vars

\* the Jama generator alone, for counts up to the default, without the drawn fields
SplitSpec == Init /\ [][SplitNext]_vars

\* the randomDate calls of one record, with the bounds the generators pass
DateSpec == Init /\ [][DateNext]_vars

\* the five route handlers: an invocation of one handler shares no state with
\* the others, except start and stop, which share the process registry; a
\* behaviour follows the invocations of one of the four components, so a
\* first step is taken only while the other components have not moved
OthersQuiet(h) ==
    /\ (h # "discover") => (rpc = "idle")
    /\ (h # "chat") => (cpc = "idle")
    /\ (h # "requirements") => (qpc = "idle")
    /\ (h # "fds") => (fdsCalls = 0)
HandlersNext ==
    \/ \E body \in Bodies, key \in BOOLEAN : OthersQuiet("discover") /\ POSTreceive(body, key)
    \/ \E r \in Replies : POSTresume(r)
    \/ \E body \in ChatBodies, key \in BOOLEAN : OthersQuiet("chat") /\ chatPOSTreceive(body, key)
    \/ \E r \in ChatReplies : chatPOSTresume(r)
    \/ OthersQuiet("requirements") /\ GETreceive
    \/ \E outcome \in HealthOutcomes : GEThealth(outcome)
    \/ \E outcome \in DataOutcomes : GETdata(outcome)
    \/ \E outcome \in SpawnOutcomes : OthersQuiet("fds") /\ STARTreceive(outcome)
    \/ \E n \in FdsRequests : STARTresume(n)
    \/ OthersQuiet("fds") /\ STOPreceive
    \/ \E n \in FdsRequests : STOPresume(n)
    \/ \E p \in 1 .. Len(procs) : processExit(p)
HandlersSpec == Init /\ [][HandlersNext]_vars

\* one emitter instance under any sequence of start, stop, timer ticks and time
EmitterNext == EmNext
EmitterSpec == Init /\ [][EmitterNext]_vars
\* the host runs a due timer callback eventually, and time passes
EmitterFairSpec ==
    EmitterSpec /\ WF_vars(\E t \in timers : tick(t)) /\ WF_vars(advance)

\* one relationship-discovery request
RouteSpecNext == RouteNext
RouteSpec == Init /\ [][RouteSpecNext]_vars

\* the two producers of pulse events: one call of generateFakePulseItems, or
\* one emitter instance; they share no state, so a behaviour follows one of them
EventsNext ==
    \/ \E n \in 0 .. MaxCount : lastOp = "new" /\ callGenerator("pulse", n)
    \/ pulseIteration
    \/ generatorReturn
    \/ \E cb \in Callbacks, ms \in 1 .. MaxInterval : gpc = "idle" /\ start(cb, ms)
    \/ gpc = "idle" /\ stop
    \/ \E t \in timers : tick(t)
    \/ gpc = "idle" /\ advance
EventsSpec == Init /\ [][EventsNext]_vars

\* one mounted NotesSection under any sequence of user events
NotesSpec == Init /\ [][NotesNext]_vars

---------------------------------------------------------------------------
(* Claims about the generators (specification Spec) *)

PerSourceGenerators == {"jama", "jira", "windchill"}

\* C1: a per-source generator called with count N returns a sequence of exactly
\* N records, and the empty sequence for N = 0.
C1_ExactCount ==
    (gpc = "done" /\ gen \in PerSourceGenerators)
        => /\ Len(result) = count
           /\ (count = 0 => result = <<>>)

C1_Witness ==
    gpc = "done" /\ gen = "jama" /\ count >= 2 /\ Len(result) = count

\* C2: the list generateFakePulseItems returns is sorted by timestamp descending:
\* every adjacent pair (a, b) has a.timestamp >= b.timestamp.
C2_SortedDescending ==
    (gpc = "done" /\ gen = "pulse")
        => \A k \in 1 .. (Len(result) - 1) :
               IsoGeq(result[k].timestamp, result[k + 1].timestamp)

C2_Witness ==
    /\ gpc = "done" /\ gen = "pulse"
    /\ Len(result) >= 2
    /\ result[1].id > result[2].id
    /\ result[1].timestamp # result[2].timestamp

\* C11: for every count N, exactly floor(0.6 N) of the records returned by
\* generateFakeJamaItems(N) are requirements and the remaining N - floor(0.6 N)
\* are test cases (30 and 20 for N = 50)
Requirements(s) == { k \in 1 .. Len(s) : s[k].item_type = "requirement" }
TestCases(s) == { k \in 1 .. Len(s) : s[k].item_type = "test_case" }
C11_SixtyPercentRequirements ==
    (gpc = "done" /\ gen = "jama") =>
        /\ Cardinality(Requirements(result)) = (6 * count) \div 10
        /\ Cardinality(TestCases(result)) = count - ((6 * count) \div 10)
        /\ Requirements(result) \cup TestCases(result) = 1 .. count
C11_Witness ==
    /\ gpc = "done" /\ gen = "jama" /\ count = DefaultJamaCount
    /\ Cardinality(Requirements(result)) = 30
    /\ Cardinality(TestCases(result)) = 20

\* C12: every record returned by a per-source generator has a non-empty
\* identifier, and its status (state) and priority are members of the fixed
\* vocabularies; randomItem never yields undefined
JamaStatusVocabulary == {"draft", "approved", "under_review", "verified", "validated"}
JiraStatusVocabulary == {"open", "in_progress", "testing", "review", "resolved", "closed"}
WindchillStateVocabulary == {"in_work", "released", "production", "obsolete"}
PriorityVocabulary == {"critical", "high", "medium", "low"}
C12_FieldsFromVocabularies ==
    (gpc = "done" /\ gen \in PerSourceGenerators) =>
        \A k \in 1 .. Len(result) :
            /\ idLength(gen, result[k].id) >= 1
            /\ gen = "jama" =>
                  /\ result[k].status \in JamaStatusVocabulary
                  /\ result[k].priority \in PriorityVocabulary
            /\ gen = "jira" =>
                  /\ result[k].status \in JiraStatusVocabulary
                  /\ result[k].priority \in PriorityVocabulary
            /\ gen = "windchill" => result[k].state \in WindchillStateVocabulary
C12_Witness ==
    /\ gpc = "done" /\ gen = "jira" /\ count = 2
    /\ result[1].status = "closed" /\ result[1].priority = "low"
    /\ result[2].status = "open" /\ result[2].priority = "critical"
    /\ idLength(gen, result[2].id) = 6

\* C13: generateFakePulseItems(N) returns exactly N events and the final sort
\* only reorders them: the returned ids are pulse-1 .. pulse-N, each exactly once
IdsOf(s) == { s[k].id : k \in 1 .. Len(s) }
C13_PulseIdsOnceEach ==
    (gpc = "done" /\ gen = "pulse") =>
        /\ Len(result) = count
        /\ IdsOf(result) = 1 .. count
        /\ \A k \in 1 .. count : Cardinality({ j \in 1 .. Len(result) : result[j].id = k }) = 1
        /\ result = items
C13_Witness ==
    /\ gpc = "done" /\ gen = "pulse" /\ count = 2
    /\ result[1].id = 2 /\ result[2].id = 1
    /\ result[1].timestamp # result[2].timestamp

\* C14: in every record returned by generateFakeJamaItems the kind determines
\* the identifier prefix and the document key: a requirement has prefix
\* JAMA-SYS- and document key SRD-2024, a test case has prefix JAMA-FTC- and
\* document key FTP-2024, and no record mixes the two
C14_KindDeterminesPrefixAndKey ==
    (gpc = "done" /\ gen = "jama") =>
        \A k \in 1 .. Len(result) :
            \/ /\ result[k].item_type = "requirement"
               /\ result[k].prefix = "JAMA-SYS-"
               /\ result[k].document_key = "SRD-2024"
            \/ /\ result[k].item_type = "test_case"
               /\ result[k].prefix = "JAMA-FTC-"
               /\ result[k].document_key = "FTP-2024"
C14_Witness ==
    /\ gpc = "done" /\ gen = "jama" /\ count = 2
    /\ result[1].item_type = "requirement" /\ result[1].document_key = "SRD-2024"
    /\ result[2].item_type = "test_case" /\ result[2].prefix = "JAMA-FTC-"

\* C19: every date produced by randomDate(boundDays) equals the instant of the
\* call minus a whole number of days d with 0 <= d < boundDays: it is never
\* later than the call and never boundDays or more days earlier (every pulse
\* timestamp lies within the last 7 days)
DaysBefore(iso, d) == [ date |-> iso.date - d, time |-> iso.time ]
C19_DateWithinBound ==
    \A k \in 1 .. Len(drec.dates) :
        LET c == drec.dates[k]
            d == c.at.date - c.value.date IN
        /\ d \in 0 .. (c.daysAgo - 1) /\ c.value = DaysBefore(c.at, d)
        /\ IsoGeq(c.at, c.value)
        /\ IsoGeq(c.value, DaysBefore(c.at, c.daysAgo)) /\ c.value # DaysBefore(c.at, c.daysAgo)
        /\ (drec.kind = "pulse") => (c.daysAgo = 7 /\ c.at.date - c.value.date <= 6)
C19_Witness ==
    /\ dpc = "done" /\ drec.kind = "pulse"
    /\ drec.dates[1].at.date - drec.dates[1].value.date = 6
    /\ drec.dates[1].value.time = drec.dates[1].at.time

\* C20: the generators do not enforce modified_date >= created_date: the
\* second date of a record is the result of its own randomDate call whatever
\* the first is, so a record whose modified (updated) date is earlier than
\* its created date is a possible output
ModifiedBeforeCreated(rec) ==
    /\ Len(rec.dates) = 2
    /\ ~IsoGeq(rec.dates[2].value, rec.dates[1].value)
C20_ModifiedNotRaisedToCreated ==
    (dpc = "done" /\ drec.kind \in PerSourceGenerators) =>
        /\ Len(drec.dates) = 2
        /\ drec.dates[2].value = DaysBefore(drec.dates[2].at, drec.dates[2].back)
        /\ (drec.dates[2].back > drec.dates[1].back /\ drec.dates[2].at.date = drec.dates[1].at.date)
              => ModifiedBeforeCreated(drec)
C20_Witness ==
    /\ dpc = "done" /\ drec.kind = "jira"
    /\ drec.dates[1].daysAgo = 180 /\ drec.dates[2].daysAgo = 7
    /\ ModifiedBeforeCreated(drec)

\* C18: a generator call mutates no shared state: it builds and returns a
\* fresh local collection and leaves the module-level vocabularies and every
\* previously returned collection unchanged, also across the in-place sort of
\* the pulse list
C18_NoSharedStateMutated ==
    /\ heap["names"] = names
    /\ heap["statuses"] = statuses
    /\ heap["priorities"] = priorities
    /\ heap["issueStatuses"] = issueStatuses
    /\ heap["a1"] = EarlierCollection
    /\ (gpc # "idle") => (itemsRef \in DOMAIN heap /\ itemsRef \notin VocabularyAddresses \cup {"a1"})
    /\ (gpc = "done") => (resultRef = itemsRef)
C18_Witness ==
    /\ gpc = "done" /\ gen = "pulse" /\ count = 2
    /\ resultRef = "a2"
    /\ result[1].id = 2 /\ result[2].id = 1
    /\ heap["a1"] = EarlierCollection /\ heap["statuses"] = statuses

---------------------------------------------------------------------------
(* Claims about the StreamingDataGenerator (EmitterSpec, EmitterFairSpec) *)

Idle == intervalId = NullId
Running == intervalId # NullId

\* C3: at most one interval timer of the instance is active, and one is active
\* exactly when intervalId is non-null (it is the timer intervalId names); so
\* after two consecutive start calls exactly one timer is active.
C3_AtMostOneTimer ==
    /\ Cardinality(timers) <= 1
    /\ (intervalId # NullId) <=> (timers # {})
    /\ \A t \in timers : t.id = intervalId
    /\ (prevOp = "start" /\ lastOp = "start") => Cardinality(timers) = 1

C3_Witness ==
    prevOp = "start" /\ lastOp = "start" /\ Cardinality(timers) = 1 /\ intervalId = 2

\* C4: the callback is invoked only while the emitter is Running and only when a
\* full interval has elapsed since the latest start; start then stop before an
\* interval elapses gives no invocation, and none happens while stopped.
C4_CallbackOnlyWhenRunningAndDue ==
    [][ calls' # calls =>
          /\ intervalId # NullId
          /\ \E t \in timers : /\ t.id = intervalId
                               /\ sinceStart >= t.interval ]_vars

C4_Witness ==
    /\ intervalId = NullId /\ nextTimerId = 2
    /\ lastOp = "advance" /\ sinceStart = MaxInterval
    /\ calls = <<>>

\* C5: stop() on an emitter that is already stopped does not throw and changes
\* nothing: intervalId stays null, the counter is unchanged, no timer is created
\* or cancelled.
C5_StopWhenStoppedIsNoOp ==
    [][ (lastOp' = "stop" /\ intervalId = NullId) =>
          /\ ~threw'
          /\ intervalId' = NullId
          /\ counter' = counter
          /\ timers' = timers
          /\ nextTimerId' = nextTimerId
          /\ calls' = calls
          /\ lastItem' = lastItem ]_vars

C5_Witness ==
    prevOp = "stop" /\ lastOp = "stop" /\ counter > 0 /\ intervalId = NullId

\* C6: the emitter is Idle (no timer) or Running (one timer); start leads to
\* Running with a new timer, stop leads to Idle, and nothing else (a timer tick,
\* the passing of time) changes the Idle/Running state.
C6_TwoStateMachine ==
    [][ /\ (lastOp' = "start" => (intervalId' # NullId /\ intervalId' # intervalId
                                  /\ timers' \cap timers = {}))
        /\ (lastOp' = "stop" => intervalId' = NullId)
        /\ (lastOp' \in {"tick", "advance"} => intervalId' = intervalId)
        /\ ((intervalId = NullId /\ intervalId' # NullId) => lastOp' = "start")
        /\ ((intervalId # NullId /\ intervalId' = NullId) => lastOp' = "stop")
        /\ (intervalId' = NullId => timers' = {})
        /\ (intervalId' # NullId => Cardinality(timers') = 1) ]_vars

C6_Witness ==
    lastOp = "tick" /\ prevOp = "advance" /\ intervalId = 2 /\ counter >= 2

\* C7: while Running, a tick invokes the currently registered callback exactly
\* once with exactly one newly constructed event; and as long as the emitter is
\* not stopped the ticks keep occurring.
C7_OneEventPerTick ==
    /\ [][ lastOp' = "tick" =>
             /\ intervalId # NullId
             /\ counter' = counter + 1
             /\ Len(calls') = Len(calls) + 1
             /\ SubSeq(calls', 1, Len(calls)) = calls
             /\ calls'[Len(calls')].cb = lastStartCb
             /\ calls'[Len(calls')].seq = counter'
             /\ lastItem'.seq = counter'
             /\ \A k \in 1 .. Len(calls) : calls[k].seq # counter' ]_vars
    /\ \A k \in 0 .. (MaxTicks - 1) :
          (intervalId # NullId /\ counter = k) ~> (counter > k \/ intervalId = NullId)

C7_Witness ==
    /\ lastOp = "tick" /\ intervalId # NullId
    /\ counter >= 3 /\ Len(calls) = counter
    /\ calls[1].seq = 1 /\ calls[3].seq = 3 /\ lastItem.seq = 3

\* C8: after start(A) then start(B), every callback invocation goes to B; A is
\* never invoked again.
C8_OnlyLatestCallback ==
    [][ calls' # calls =>
          \A k \in (Len(calls) + 1) .. Len(calls') : calls'[k].cb = lastStartCb ]_vars

C8_Witness ==
    /\ Len(calls) >= 2
    /\ calls[1].cb = "A"
    /\ calls[Len(calls)].cb = "B"
    /\ lastStartCb = "B"
    /\ lastOp = "tick"

\* C15 (as stated): stopping the emitter loses all of its state: after stop()
\* the emitter is as a newly constructed one (no timer, counter 0), so the
\* first event after a restart carries sequence number 1
C15_StopLosesAllState ==
    (lastOp = "stop") => (intervalId = NullId /\ timers = {} /\ counter = 0)
\* C15 (amended): stop() cancels the timer and clears the handle but keeps the
\* counter; the events of one emitter are numbered 1, 2, 3, ... across stops
\* and restarts, each tick passing counter + 1
C15_StopKeepsCounter ==
    [][ /\ (lastOp' = "stop") => (intervalId' = NullId /\ timers' = {} /\ counter' = counter)
        /\ (lastOp' = "start") => (counter' = counter)
        /\ (lastOp' = "tick") => (lastItem'.seq = counter + 1 /\ counter' = counter + 1)
        /\ \A k \in 1 .. Len(calls') : calls'[k].seq = k ]_vars
C15_Witness ==
    /\ lastOp = "start" /\ prevOp = "stop"
    /\ counter >= 1 /\ Len(calls) = counter
    /\ intervalId # NullId

---------------------------------------------------------------------------
(* Claims about the relationship-discovery handler (RouteSpec) *)

\* the sources field is missing, is not an array, or has fewer than 2 elements
SourcesMissingOrTooFew(body) ==
    body.sk # "array" \/ Len(body.items) < 2

\* C9: a body whose sources field is missing, is not an array, or has fewer than
\* 2 elements gets a 400 response and no outbound call is made, whether or not an
\* API key is configured.
C9_TooFewSources400 ==
    (rpc = "done" /\ req.body.k # "unparseable" /\ SourcesMissingOrTooFew(req.body))
        => /\ resp.k = "response"
           /\ resp.status = 400
           /\ outbound = 0

\* the model's text is not a JSON array of relationship objects
Malformed(text) ==
    LET parsed == JSONparse(text)
    IN \/ parsed.k # "array"
       \/ \E n \in 1 .. Len(parsed.items) : parsed.items[n].k # "object"

\* the model replied with a non-empty text
GotText == rpc = "done" /\ reply.k = "content" /\ reply.text # ""

\* the structured error of the inner catch, carrying the raw text
IsRawTextError(r, text) ==
    /\ r.k = "response"
    /\ r.status = 500
    /\ r.details = text
    /\ ~r.hasRelationships

---------------------------------------------------------------------------
(* Claims about the route handlers (HandlersSpec) *)

HealthRequests == { k \in 1 .. Len(qlog) : qlog[k].kind = "health" }
DataRequests == { k \in 1 .. Len(qlog) : qlog[k].kind = "data" }
UpstreamFailures == {"reject", "notok", "notokNoText", "badjson"}

\* C16 (as stated): no route handler retries a failed upstream call: once an
\* upstream request has failed the handler issues no further upstream request
\* and the failure surfaces immediately as an error response
C16_NoRequestAfterFailure ==
    /\ outbound <= 1
    /\ Len(csent) <= 1
    /\ \A k \in 1 .. (Len(qlog) - 1) : qlog[k].outcome = "ok"
    /\ (qpc = "done" /\ \E k \in 1 .. Len(qlog) : qlog[k].outcome # "ok")
          => (qresp.k = "response" /\ qresp.status \in {500, 503} /\ Len(qlog) = 1)

\* C16 (amended): no handler sends the same upstream request twice. The
\* discovery and chat handlers send at most one request and answer 500 when
\* it fails. The requirements handler probes the base URLs in order, each at
\* most once, going on to the next one when a health check fails; it answers
\* 503 exactly when every health check failed; after a successful health
\* check it sends one data request to the base URL that answered, and when
\* that fails it answers 500 without a further request
C16_NoRepeatedRequest ==
    /\ outbound <= 1
    /\ (rpc = "done" /\ reply.k \in UpstreamFailures) => (resp.k = "response" /\ resp.status = 500)
    /\ Len(csent) <= 1
    /\ (cpc = "done" /\ creply.k \in UpstreamFailures) => (cresp.k = "response" /\ cresp.status = 500)
    /\ \A j, k \in 1 .. Len(qlog) :
          (j # k) => (qlog[j].url # qlog[k].url \/ qlog[j].kind # qlog[k].kind)
    /\ \A k \in HealthRequests : k <= Len(fdsUrls) /\ qlog[k].url = fdsUrls[k]
    /\ \A k \in 1 .. (Len(qlog) - 1) :
          /\ qlog[k].kind = "health"
          /\ (qlog[k].outcome = "ok") => (qlog[k + 1].kind = "data" /\ qlog[k + 1].url = qlog[k].url)
          /\ (qlog[k].outcome # "ok") => (qlog[k + 1].kind = "health")
    /\ (qpc = "done") =>
          /\ (qresp.status = 503) <=>
                 (Len(qlog) = Len(fdsUrls) /\ \A k \in 1 .. Len(qlog) :
                                                  qlog[k].kind = "health" /\ qlog[k].outcome # "ok")
          /\ (DataRequests # {} /\ qlog[Len(qlog)].outcome \in UpstreamFailures)
                 => (qresp.k = "response" /\ qresp.status = 500)
C16_Witness ==
    /\ qpc = "done" /\ Len(qlog) = 3
    /\ qlog[1] = [url |-> "http://127.0.0.1:8001", kind |-> "health", outcome |-> "reject"]
    /\ qlog[2] = [url |-> "http://localhost:8001", kind |-> "health", outcome |-> "ok"]
    /\ qlog[3] = [url |-> "http://localhost:8001", kind |-> "data", outcome |-> "notok"]
    /\ qresp.status = 500

\* C17: every invocation of a route handler (discovery POST, chat POST,
\* requirements GET, FDS start POST, FDS stop POST) ends by returning exactly
\* one HTTP response, whatever the request body and the upstream reply or
\* failure; no exception leaves a handler
Outcome(pc, r) ==
    IF pc = "done" THEN r.k = "response" /\ r.status \in 200 .. 599
    ELSE r.k = "none"
C17_OneResponsePerInvocation ==
    /\ Outcome(rpc, resp)
    /\ Outcome(cpc, cresp)
    /\ Outcome(qpc, qresp)
    /\ \A n \in FdsRequests : Outcome(spc[n], sresp[n]) /\ Outcome(tpc[n], tresp[n])
C17_Witness ==
    /\ cpc = "done" /\ creq.key /\ creq.body.hasHistory
    /\ creply.k = "nochoices"
    /\ cresp = ChatError(500, "Internal server error")

---------------------------------------------------------------------------
(* Claims about the FDS start and stop handlers (HandlersSpec) *)

Alive == { p \in 1 .. Len(procs) : procs[p].state = "running" }

\* C21: under every interleaving of start requests, stop requests and child
\* exit events, the registry holds the entry 'fds' whenever a spawned process
\* is alive and the entry refers to that process; so at most one spawned
\* process is alive at any time
C21_RegistryTracksLiveProcess ==
    /\ \A p \in Alive : registry = p
    /\ Cardinality(Alive) <= 1

\* the start invocations that are in their 1000 ms wait (each has called spawn)
StartsWaiting == { n \in FdsRequests : spc[n] = "waiting" }
\* this step receives start invocation n
StartReceived(n) == spc[n] = "idle" /\ spc'[n] # "idle"
\* a start request received while the registry holds an entry returns 409,
\* spawns no process and leaves the registry unchanged
StartRefusedWhenRegistered ==
    \A n \in FdsRequests :
        (StartReceived(n) /\ registry # NoProc) =>
            /\ spc'[n] = "done" /\ sresp'[n].k = "response" /\ sresp'[n].status = 409
            /\ procs' = procs /\ registry' = registry

StopReceived(n) == tpc[n] = "idle" /\ tpc'[n] # "idle"
StopEnded(n) == tpc[n] # "done" /\ tpc'[n] = "done"

\* C23: a stop request received while the registry holds no entry returns
\* 404, sends no signal and leaves the registry unchanged; a stop request
\* that finds an entry removes it, so that the status GET issued after its
\* response, with no start in between, reports fdsRunning = false and
\* processCount = 0
C23_StopWithoutEntry404AndStopRemovesEntry ==
    [][ /\ \A n \in FdsRequests :
              /\ (StopReceived(n) /\ registry = NoProc) =>
                     /\ tpc'[n] = "done" /\ tresp'[n].k = "response" /\ tresp'[n].status = 404
                     /\ procs' = procs /\ registry' = registry
              /\ (StopReceived(n) /\ registry # NoProc) =>
                     /\ tproc'[n] = registry
                     /\ tpc'[n] = "waiting" \/ tresp'[n].status = 200
              /\ (StopEnded(n) /\ tproc'[n] # NoProc) =>
                     /\ tresp'[n].status = 200
                     /\ statusGET' = [fdsRunning |-> FALSE, processCount |-> 0]
        /\ (~statusGET.fdsRunning /\ statusGET'.fdsRunning) => \E n \in FdsRequests : StartReceived(n)
      ]_vars
C23_Witness ==
    /\ spc[1] # "idle" /\ Len(procs) = 1 /\ procs[1].signals = << "SIGTERM" >>
    /\ tpc[2] = "done" /\ tproc[2] = 1 /\ tresp[2] = FdsOk("Fake Data Service stopped successfully")
    /\ statusGET = [fdsRunning |-> FALSE, processCount |-> 0]
    /\ tpc[3] = "done" /\ tresp[3].status = 404 /\ tproc[3] = NoProc

\* this step ends the 1-second wait of start invocation n
StartEnded(n) == spc[n] = "waiting" /\ spc'[n] = "done"

\* C24: the start handler reports success only if the spawned process is
\* still running after the 1-second wait; a process that failed to spawn or
\* exited during the wait gives the 500 'Failed to start Fake Data Service'
C24_SuccessOnlyIfStillRunning ==
    [][ \A n \in FdsRequests : StartEnded(n) =>
          IF procs[sproc[n]].state = "running"
             THEN TRUE
             ELSE sresp'[n] = FdsError(500, "Failed to start Fake Data Service")
      ]_vars

\* C25: the stop handler sends SIGTERM first and, if the process has not
\* terminated when the 2-second grace period ends, sends SIGKILL, so that a
\* process that ignores SIGTERM is force-killed before the handler reports
\* 'stopped successfully'
C25_ForceKillAfterGrace ==
    [][ \A n \in FdsRequests :
          /\ (StopReceived(n) /\ tpc'[n] = "waiting") =>
                 procs'[tproc'[n]].signals = Append(procs[tproc'[n]].signals, "SIGTERM")
          /\ (tpc[n] = "waiting" /\ StopEnded(n) /\ procs[tproc[n]].state = "running") =>
                 procs'[tproc[n]].signals = Append(procs[tproc[n]].signals, "SIGKILL")
      ]_vars

---------------------------------------------------------------------------
(* Claims about the requirements handler (HandlersSpec) *)

\* the health checks that passed
HealthPassed == { k \in HealthRequests : qlog[k].outcome = "ok" }

\* C26: the requirements GET probes the base URLs in the fixed order
\* 127.0.0.1 then localhost and stops at the first health check that
\* succeeds; it fetches requirements only from a base URL whose health check
\* succeeded; it answers 503 with requirements = [] and total = 0 exactly
\* when every health check failed, and then it has made no data request
C26_ProbeOrderAndUnavailable ==
    /\ fdsUrls = << "http://127.0.0.1:8001", "http://localhost:8001" >>
    /\ \A k \in HealthRequests :
          /\ k <= Len(fdsUrls) /\ qlog[k].url = fdsUrls[k]
          /\ \A j \in 1 .. (k - 1) : qlog[j].kind = "health" /\ qlog[j].outcome \notin {"ok", "pending"}
    /\ \A k \in DataRequests :
          \E j \in HealthPassed : j < k /\ qlog[j].url = qlog[k].url
    /\ Cardinality(DataRequests) <= 1
    /\ (qpc = "done") =>
          /\ (qresp.k = "response" /\ qresp.status = 503) <=>
                 /\ HealthPassed = {}
                 /\ { qlog[k].url : k \in HealthRequests } = { fdsUrls[k] : k \in 1 .. Len(fdsUrls) }
          /\ (qresp.status = 503) =>
                 /\ qresp.requirements = <<>> /\ qresp.total = 0
                 /\ DataRequests = {}
          /\ (HealthPassed = {}) => (DataRequests = {})
C26_Witness ==
    /\ qpc = "done" /\ Len(qlog) = 2
    /\ qlog[1] = [url |-> "http://127.0.0.1:8001", kind |-> "health", outcome |-> "badjson"]
    /\ qlog[2] = [url |-> "http://localhost:8001", kind |-> "health", outcome |-> "notok"]
    /\ qresp = ReqError(503, "Data engine is not running")
\* the other case: the second base URL answers and the list comes from it
C26_WitnessData ==
    /\ qpc = "done" /\ Len(qlog) = 3
    /\ qlog[2] = [url |-> "http://localhost:8001", kind |-> "health", outcome |-> "ok"]
    /\ qlog[3] = [url |-> "http://localhost:8001", kind |-> "data", outcome |-> "list"]
    /\ qresp = ReqOk(<< "requirement" >>)

---------------------------------------------------------------------------
(* Claims about the enriched relationships (RouteSpec) *)

\* the elements of the sources array of the request
SourceElements == { req.body.items[n] : n \in 1 .. Len(req.body.items) }

\* C27: every relationship the discovery endpoint returns has sourceA and
\* sourceB equal to elements of the sources array of the request, whatever
\* sourceIndices the model returned (missing, out of range, or shorter than
\* two entries)
C27_SourcesComeFromRequest ==
    (rpc = "done" /\ resp.k = "response" /\ resp.status = 200) =>
        \A n \in 1 .. Len(resp.relationships) :
            /\ resp.relationships[n].sourceA \in SourceElements
            /\ resp.relationships[n].sourceB \in SourceElements

---------------------------------------------------------------------------
(* Claims about the chat handler (HandlersSpec) *)

\* min(10, |history|)
Recent(history) == IF Len(history) < 10 THEN Len(history) ELSE 10

\* C28: the message list the chat handler sends to the model is one system
\* message first, then the last min(10, |history|) history messages in their
\* original order, then the new user message last; it never holds more than
\* 12 messages and never reorders or duplicates history entries
C28_MessagesAreSystemRecentHistoryUser ==
    \A k \in 1 .. Len(csent) :
        LET sent == csent[k].messages
            history == creq.body.history
        IN /\ Len(sent) = Recent(history) + 2
           /\ Len(sent) <= 12
           /\ sent[1] = [role |-> "system", content |-> 0]
           /\ sent[Len(sent)] = [role |-> "user", content |-> -1]
           /\ \A j \in 1 .. Recent(history) :
                  sent[1 + j] = history[Len(history) - Recent(history) + j]
C28_Witness ==
    /\ Len(csent) = 1
    /\ Len(creq.body.history) = 12
    /\ Len(csent[1].messages) = 12
    /\ csent[1].messages[2].content = 3
    /\ csent[1].messages[11].content = 12

---------------------------------------------------------------------------
(* Claims about the pulse events (EventsSpec) *)

\* the type that goes with a source
TypeOfSource(source) ==
    CASE source = "jama" -> "requirement"
      [] source = "jira" -> "issue"
      [] source = "windchill" -> "part"
      [] source = "outlook" -> "message"
      [] source = "email" -> "email"
      [] OTHER -> "none"
\* the reference carries the type of its source, and a status exactly for
\* jama, jira and windchill
RefFollowsSource(ref) ==
    /\ ref.type = TypeOfSource(ref.source)
    /\ ref.hasStatus <=> ref.source \in {"jama", "jira", "windchill"}

\* C29: in every pulse event, static or streamed, the artifact reference is
\* determined by the chosen source: its source is the chosen source, its
\* type is requirement for jama, issue for jira, part for windchill, message
\* for outlook and email for email, and it has a status exactly for jama,
\* jira and windchill; static events draw the source from jama, jira,
\* windchill, outlook, email, and streamed events never have source email
C29_ArtifactRefFollowsSource ==
    /\ (gen = "pulse") =>
          /\ randomItem(pulseSources) = {"jama", "jira", "windchill", "outlook", "email"}
          /\ \A source \in randomItem(pulseSources) : PulseArtifactRef(source, i).source = source
          /\ \A k \in 1 .. Len(items) :
                 /\ items[k].artifact_ref.source \in randomItem(pulseSources)
                 /\ RefFollowsSource(items[k].artifact_ref)
    /\ (counter > 0) =>
          /\ \A source \in randomItem(streamSources) : StreamArtifactRef(source).source = source
          /\ lastItem.artifact_ref.source \in {"jama", "jira", "windchill", "outlook"}
          /\ RefFollowsSource(lastItem.artifact_ref)
C29_Witness ==
    /\ gpc = "done" /\ gen = "pulse" /\ Len(result) = 2
    /\ result[1].artifact_ref.source = "email" /\ result[1].artifact_ref.type = "email"
    /\ result[2].artifact_ref.source = "windchill" /\ result[2].artifact_ref.hasStatus
\* the streamed case: an event for an outlook message has been delivered
C29_WitnessStreamed ==
    /\ counter > 0 /\ Len(calls) > 0
    /\ lastItem.artifact_ref = [type |-> "message", source |-> "outlook", hasStatus |-> FALSE]

---------------------------------------------------------------------------
(* Claims about the NotesSection component (NotesSpec) *)

\* C30: no NotesSection operation (title edit, content edit, save, create,
\* delete of another note) changes the title or the content of a note whose
\* isSourced flag is true
C30_SourcedNotesReadOnly ==
    [][ \A j \in 1 .. Len(notes), k \in 1 .. Len(notes') :
            (notes[j].isSourced /\ notes'[k].id = notes[j].id) =>
                (notes'[k].title = notes[j].title /\ notes'[k].content = notes[j].content)
      ]_vars

=============================================================================
